---- MODULE Spec2Model ----
(***************************************************************************)
(* Encrypted content-encoding (nodejs/ece.js): the keystore, the key       *)
(* schedule, the nonce generator, the record codec and the record framing  *)
(* of encrypt and decrypt for aesgcm128, aesgcm and aes128gcm.             *)
(*                                                                         *)
(* Buffers of plaintext are sequences of octets.  A ciphertext buffer is   *)
(* an optional in-band header followed by AEAD records; an AEAD record is  *)
(* kept as the triple (key, nonce, plaintext) it was sealed under, its     *)
(* length on the wire being the plaintext length plus the tag.  A slice of *)
(* a ciphertext authenticates only when it is exactly one sealed record    *)
(* and is opened under the same key and nonce.  HMAC/HKDF outputs are      *)
(* symbolic terms, equal exactly when their inputs are equal.  Numbers of  *)
(* more than 31 bits are pairs <<hi, lo>> of 24-bit limbs.                 *)
(***************************************************************************)
EXTENDS Integers, Sequences, FiniteSets, TLC

VARIABLES savedKeys, keyLabels, call

vars == <<savedKeys, keyLabels, call>>

(* ------------------------------ bounds --------------------------------- *)
MaxLen == 3
MaxPad == 2
MaxRs == 3
BigPad == 300
BigRs == 258

(* --------------------------- program constants ------------------------- *)
TAG_LENGTH == 16
KEY_LENGTH == 16
NONCE_LENGTH == 12
SHA_256_LENGTH == 32
DefaultRs == 4096
HeaderFixedLen == 21
MaxKeyIdLen == 255
NaN == -1

MODE_ENCRYPT == "encrypt"
MODE_DECRYPT == "decrypt"

PAD_SIZE(type) == IF type = "aesgcm128" THEN 1 ELSE 2

(* ------------------------------ values --------------------------------- *)
Undefined == "none"

Ids == {"a"}
KeyIds == {Undefined, "a", "b"}
RawKey == "raw1"
EcdhKey == "ecdhA"
KeyMaterials == {RawKey, EcdhKey}
DhLabels == {Undefined, "P-256"}

(* base64.decode: the octets a parameter text stands for; decoding octets *)
(* that were already decoded (their string form) gives other octets         *)
base64_decode(text) ==
  CASE text = "K16" -> "k16"
    [] text = "K8" -> "k8"
    [] text = "S16" -> "s16"
    [] text = "A16" -> "a16"
    [] text = "PUBB" -> "pubB"
    [] text = "a16" -> "a16-redecoded"
    [] OTHER -> "garbled"

(* buffer.length *)
ByteLen(buf) ==
  IF buf \in {"k16", "s16", "a16", "r1", "r2"} THEN 16
  ELSE IF buf = "k8" THEN 8
  ELSE IF buf \in {"pubA", "pubB"} THEN 65
  ELSE 0

StrLen(s) == IF s = Undefined THEN 0 ELSE 1

Min(a, b) == IF a < b THEN a ELSE b

Zeros(n) == [k \in 1..n |-> 0]

RECURSIVE SumSeq(_)
SumSeq(s) == IF s = <<>> THEN 0 ELSE Head(s) + SumSeq(Tail(s))

RECURSIVE ConcatAll(_)
ConcatAll(s) == IF s = <<>> THEN <<>> ELSE Head(s) \o ConcatAll(Tail(s))

(* ----------------------- 32-bit integer operators ---------------------- *)
Two24 == 16777216

RECURSIVE BitXor(_, _, _)
BitXor(a, b, n) ==
  IF n = 0 THEN 0
  ELSE ((a + b) % 2) + 2 * BitXor(a \div 2, b \div 2, n - 1)

(* a Number below 2^48 is <<hi, lo>>, its value hi * 2^24 + lo *)
Num(i) == <<i \div Two24, i % Two24>>

(* ToInt32: the low 32 bits, as <<top 8 bits, low 24 bits>> *)
ToInt32(n) == <<n[1] % 256, n[2]>>

(* a ^ b on Int32 operands *)
Xor32(a, b) == <<BitXor(a[1], b[1], 8), BitXor(a[2], b[2], 24)>>

(* x & 0xffffff, a Number below 2^24 *)
And24(x) == x[2]

(* n / 0x1000000 as the Int32 the ^ operator truncates it to *)
DivTwo24(n) == <<0, n[1]>>

(* buf.readUIntBE(offset, 6), offset counted from 0 *)
readUIntBE6(buf, offset) ==
  << buf[offset + 1] * 65536 + buf[offset + 2] * 256 + buf[offset + 3],
     buf[offset + 4] * 65536 + buf[offset + 5] * 256 + buf[offset + 6] >>

(* buf.writeUIntBE(x, offset, 6) *)
writeUIntBE6(buf, x, offset) ==
  [k \in 1..Len(buf) |->
     IF k = offset + 1 THEN x[1] \div 65536
     ELSE IF k = offset + 2 THEN (x[1] \div 256) % 256
     ELSE IF k = offset + 3 THEN x[1] % 256
     ELSE IF k = offset + 4 THEN x[2] \div 65536
     ELSE IF k = offset + 5 THEN (x[2] \div 256) % 256
     ELSE IF k = offset + 6 THEN x[2] % 256
     ELSE buf[k]]

(* only the low 24 bits of the counter are mixed in *)
generateNonce_low24(base, counter) ==
  LET nonce == base
      m == readUIntBE6(nonce, Len(nonce) - 6)
      x == << m[1], And24(Xor32(ToInt32(m), ToInt32(counter))) >>
  IN  writeUIntBE6(nonce, x, Len(nonce) - 6)

generateNonce(base, counter) ==
  LET nonce == base
      m == readUIntBE6(nonce, Len(nonce) - 6)
      x == << And24(Xor32(ToInt32(DivTwo24(m)), ToInt32(DivTwo24(counter)))),
              And24(Xor32(ToInt32(m), ToInt32(counter))) >>
  IN  writeUIntBE6(nonce, x, Len(nonce) - 6)

(* ------------------------------- HKDF ---------------------------------- *)
(* hmac.update accepts octets only; a key-pair object is a TypeError *)
IsBytes(x) == x # EcdhKey

HMAC_hash(key, input) == <<"hmac", key, input>>

HKDF_extract(salt, ikm) == HMAC_hash(salt, ikm)

(* the octets of a 12-byte expansion, by the info string that labels it *)
NonceOctets(prk, infoStr) ==
  IF Len(infoStr) = 2 THEN <<1, 2, 3, 4, 5, 6, 0, 0, 0, 0, 0, 0>>
  ELSE IF Len(infoStr) = 3 THEN <<9, 8, 7, 6, 5, 4, 255, 255, 255, 255, 255, 254>>
  ELSE <<170, 187, 204, 221, 238, 255, 18, 52, 86, 120, 154, 188>>

HKDF_expand(prk, infoStr, l) ==
  IF l = NONCE_LENGTH THEN NonceOctets(prk, infoStr)
  ELSE <<"expand", prk, infoStr, l>>

HKDF(salt, ikm, infoStr, len) == HKDF_expand(HKDF_extract(salt, ikm), infoStr, len)

(* 'Content-Encoding: ' + base + NUL, then the context octets *)
info(base, context) == <<"Content-Encoding: ", base, "NUL">> \o context

lengthPrefix(buffer) == <<ByteLen(buffer), buffer>>

(* ----------------------------- keystore -------------------------------- *)
Lookup(store, id) == IF id \in DOMAIN store THEN store[id] ELSE Undefined

getPublicKey(key) == "pubA"

(* the shared secret of a stored key pair and a peer's public share *)
computeSecret(key, share) == <<"ecdh", key, share>>

Ok(fields) == [err |-> "none"] @@ fields
Fail(e) == [err |-> e]

extractDH(keyid, share, mode) ==
  IF Lookup(savedKeys, keyid) = Undefined THEN Fail("UnknownKeyId")
  ELSE IF Lookup(keyLabels, keyid) = Undefined THEN Fail("MissingDhLabel")
  ELSE LET key == savedKeys[keyid]
           pub == getPublicKey(key)
           senderPubKey == IF mode = MODE_ENCRYPT THEN pub ELSE share
           receiverPubKey == IF mode = MODE_ENCRYPT THEN share ELSE pub
       IN  IF key # EcdhKey THEN Fail("TypeError")
           ELSE IF mode \notin {MODE_ENCRYPT, MODE_DECRYPT} THEN Fail("UnknownMode")
           ELSE Ok([secret |-> computeSecret(key, share),
                    context |-> keyLabels[keyid] \o lengthPrefix(receiverPubKey)
                                  \o lengthPrefix(senderPubKey)])

(* mixes the auth secret in; ikm is the secret before that step *)
AuthStep(header, r) ==
  IF r.err # "none" THEN r
  ELSE IF r.secret = Undefined THEN Fail("MissingKeyMaterial")
  ELSE IF header.authSecret # Undefined
    THEN IF ~IsBytes(r.secret) THEN Fail("TypeError") @@ [ikm |-> r.secret]
         ELSE Ok([secret |-> HKDF(base64_decode(header.authSecret), r.secret,
                                  info("auth", <<>>), SHA_256_LENGTH),
                  context |-> r.context, ikm |-> r.secret])
    ELSE Ok([secret |-> r.secret, context |-> r.context, ikm |-> r.secret])

(* dh is consulted before an explicit key *)
extractSecretAndContext_dhFirst(header, mode) ==
  AuthStep(header,
    IF header.dh # Undefined THEN extractDH(header.keyid, header.dh, mode)
    ELSE IF header.key # Undefined
      THEN IF ByteLen(header.key) # KEY_LENGTH THEN Fail("BadKeyLength")
           ELSE Ok([secret |-> header.key, context |-> <<>>])
    ELSE IF header.keyid # Undefined
      THEN Ok([secret |-> Lookup(savedKeys, header.keyid), context |-> <<>>])
    ELSE Ok([secret |-> Undefined, context |-> <<>>]))

extractSecretAndContext(header, mode) ==
  AuthStep(header,
    IF header.key # Undefined
      THEN IF ByteLen(header.key) # KEY_LENGTH THEN Fail("BadKeyLength")
           ELSE Ok([secret |-> header.key, context |-> <<>>])
    ELSE IF header.dh # Undefined THEN extractDH(header.keyid, header.dh, mode)
    ELSE IF header.keyid # Undefined
      THEN Ok([secret |-> Lookup(savedKeys, header.keyid), context |-> <<>>])
    ELSE Ok([secret |-> Undefined, context |-> <<>>]))

deriveKeyAndNonce(header, mode) ==
  IF header.salt = Undefined THEN Fail("MissingSalt")
  ELSE LET s == extractSecretAndContext(header, mode)
       IN  IF s.err # "none" THEN s
           ELSE IF ~IsBytes(s.secret) THEN Fail("TypeError") @@ [ikm |-> s.ikm]
           ELSE LET prk == HKDF_extract(header.salt, s.secret)
                    keyInfo ==
                      IF header.type = "aesgcm128"
                        THEN <<"Content-Encoding: ", "aesgcm128">>
                      ELSE IF header.type = "aesgcm" THEN info("aesgcm", s.context)
                      ELSE <<"Content-Encoding: ", "aesgcm128", "NUL">>
                    nonceInfo ==
                      IF header.type = "aesgcm128"
                        THEN <<"Content-Encoding: ", "nonce">>
                      ELSE IF header.type = "aesgcm" THEN info("nonce", s.context)
                      ELSE <<"Content-Encoding: ", "nonce", "NUL">>
                IN  IF header.type \notin {"aesgcm128", "aesgcm", "aes128gcm"}
                      THEN Fail("UnknownVariant")
                    ELSE Ok([key |-> HKDF_expand(prk, keyInfo, KEY_LENGTH),
                             nonce |-> HKDF_expand(prk, nonceInfo, NONCE_LENGTH),
                             ikm |-> s.ikm])

(* ------------------------------ parameters ----------------------------- *)
isNaN(x) == x = NaN

(* rs equal to padSize is let through *)
determineRecordSize_lt(rs, type) ==
  IF isNaN(rs) THEN Ok([rs |-> DefaultRs])
  ELSE IF rs < PAD_SIZE(type) THEN Fail("BadRecordSize")
  ELSE Ok([rs |-> rs])

determineRecordSize(rs, type) ==
  IF isNaN(rs) THEN Ok([rs |-> DefaultRs])
  ELSE IF rs <= PAD_SIZE(type) THEN Fail("BadRecordSize")
  ELSE Ok([rs |-> rs])

extractSalt(salt) ==
  IF salt = Undefined THEN Fail("MissingSalt")
  ELSE IF ByteLen(base64_decode(salt)) # KEY_LENGTH THEN Fail("BadSaltLength")
  ELSE Ok([salt |-> base64_decode(salt)])

parseParams(params) ==
  LET type == IF params.padSize = 1 THEN "aesgcm128" ELSE "aesgcm"
      salt == IF params.salt # Undefined THEN extractSalt(params.salt)
              ELSE Ok([salt |-> Undefined])
      rs == determineRecordSize(params.rs, type)
  IN  IF salt.err # "none" THEN salt
      ELSE IF rs.err # "none" THEN rs
      ELSE Ok([type |-> type, salt |-> salt.salt, rs |-> rs.rs,
               keyid |-> params.keyid,
               key |-> IF params.key # Undefined THEN base64_decode(params.key)
                       ELSE Undefined,
               dh |-> IF params.dh # Undefined THEN base64_decode(params.dh)
                      ELSE Undefined,
               authSecret |-> IF params.authSecret # Undefined
                                THEN base64_decode(params.authSecret)
                              ELSE Undefined])

(* ------------------------------ buffers -------------------------------- *)
IsBuffer(x) == "recs" \in DOMAIN x

RecLen(rec) == Len(rec.plain) + TAG_LENGTH

HdrLen(buf) == IF buf.hdr = <<>> THEN 0 ELSE HeaderFixedLen + StrLen(buf.hdr[1].keyid)

RECURSIVE Offset(_, _)
Offset(buf, j) == IF j = 1 THEN HdrLen(buf) ELSE Offset(buf, j - 1) + RecLen(buf.recs[j - 1])

ByteLength(buf) == Offset(buf, Len(buf.recs) + 1)

(* buffer.slice(start, end): one whole sealed record, or octets that are not one *)
Slice(buf, start, end) ==
  LET hit == {j \in 1..Len(buf.recs) :
                Offset(buf, j) = start /\ Offset(buf, j + 1) = end}
  IN  IF hit = {} THEN [whole |-> FALSE, len |-> end - start]
      ELSE [whole |-> TRUE, len |-> end - start, rec |-> buf.recs[CHOOSE j \in hit : TRUE]]

(* Used when decrypting aes128gcm to populate the header values. *)
readHeader(params, buffer) ==
  IF ~IsBuffer(buffer) THEN Fail("TypeError")
  ELSE IF buffer.hdr = <<>> THEN Fail("GarbledHeader")
  ELSE Ok([type |-> "aes128gcm", salt |-> buffer.hdr[1].salt, rs |-> buffer.hdr[1].rs,
           keyid |-> buffer.hdr[1].keyid,
           key |-> IF params.key # Undefined THEN base64_decode(params.key)
                   ELSE Undefined,
           dh |-> IF params.dh # Undefined THEN base64_decode(params.dh)
                  ELSE Undefined,
           authSecret |-> IF params.authSecret # Undefined
                            THEN base64_decode(params.authSecret)
                          ELSE Undefined])

encodeHeader(header) ==
  IF StrLen(header.keyid) > MaxKeyIdLen THEN Fail("KeyIdTooLong")
  ELSE Ok([hdr |-> <<[salt |-> header.salt, rs |-> header.rs, keyid |-> header.keyid]>>])

(* ---------------------------- record codec ----------------------------- *)
(* buf.writeUIntBE(pad, 0, padSize) into a zero-filled buffer of padSize octets *)
PadField(pad, padSize) ==
  IF padSize = 1 THEN <<pad % 256>> ELSE <<(pad \div 256) % 256, pad % 256>>

(* data.readUIntBE(0, padSize) *)
ReadPad(data, padSize) ==
  IF padSize = 1 THEN data[1] ELSE data[1] * 256 + data[2]

encryptRecord(key, counter, buffer, pad, padSize) ==
  LET nonce == generateNonce(key.nonce, Num(counter))
      padding == PadField(pad, padSize) \o Zeros(pad)
  IN  [key |-> key.key, nonce |-> nonce, plain |-> padding \o buffer]

decryptRecord(key, counter, buffer, header) ==
  LET nonce == generateNonce(key.nonce, Num(counter))
      padSize == PAD_SIZE(header.type)
  IN  IF ~buffer.whole THEN Fail("AeadFailure")
      ELSE IF buffer.rec.key # key.key \/ buffer.rec.nonce # nonce THEN Fail("AeadFailure")
      ELSE LET data == buffer.rec.plain
           IN  IF Len(data) < padSize THEN Fail("RangeError")
               ELSE LET pad == ReadPad(data, padSize)
                    IN  IF pad + padSize > Len(data) THEN Fail("InvalidPadding")
                        ELSE IF SubSeq(data, padSize + 1, padSize + pad) # Zeros(pad)
                          THEN Fail("InvalidPadding")
                        ELSE Ok([data |-> SubSeq(data, padSize + pad + 1, Len(data))])

(* ------------------------------ decrypt -------------------------------- *)
RECURSIVE decryptLoop(_, _, _, _, _, _, _)
decryptLoop(buffer, key, header, i, start, result, ctrs) ==
  LET length == ByteLength(buffer)
      end0 == start + header.rs + TAG_LENGTH
      end == Min(end0, length)
  IN  IF ~(start < length) THEN Ok([out |-> result, ctrs |-> ctrs])
      ELSE IF end0 = length THEN Fail("TruncatedPayload") @@ [ctrs |-> ctrs]
      ELSE IF end - start <= TAG_LENGTH THEN Fail("BlockTooSmall") @@ [ctrs |-> ctrs]
      ELSE LET block == decryptRecord(key, i, Slice(buffer, start, end), header)
           IN  IF block.err # "none" THEN block @@ [ctrs |-> Append(ctrs, i)]
               ELSE decryptLoop(buffer, key, header, i + 1, end,
                                result \o block.data, Append(ctrs, i))

(* the call at line 258 passes (buffer, params) to readHeader(params, buffer); *)
(* header.len is never set, so buffer.slice(header.len) is the whole buffer    *)
decrypt(buffer, params) ==
  LET header == IF params.salt # Undefined THEN parseParams(params)
                ELSE readHeader(buffer, params)
  IN  IF header.err # "none" THEN header @@ [ctrs |-> <<>>, reachedKey |-> FALSE]
      ELSE LET key == deriveKeyAndNonce(header, MODE_DECRYPT)
           IN  IF key.err # "none"
                 THEN key @@ [ctrs |-> <<>>, reachedKey |-> TRUE, header |-> header]
               ELSE decryptLoop(buffer, key, header, 0, 0, <<>>, <<>>)
                      @@ [reachedKey |-> TRUE, header |-> header, ikm |-> key.ikm]

(* ------------------------------ encrypt -------------------------------- *)
(* no bound by the width of the padding-length field *)
RecordPad_noMax(rs, padSize, pad) == Min(rs - padSize - 1, pad)

RecordPad(rs, padSize, pad) ==
  Min((2 ^ (padSize * 8)) - 1, Min(rs - padSize - 1, pad))

(* the loop stops at the end of the data: no trailing record *)
EncLoopContinues_lt(start, length) == start < length

EncLoopContinues(start, length) == start <= length

RECURSIVE encryptLoop(_, _, _, _, _, _, _, _)
encryptLoop(buffer, key, rs, padSize, i, start, pad, acc) ==
  IF ~EncLoopContinues(start, Len(buffer)) THEN acc @@ [pad |-> pad]
  ELSE LET recordPad == RecordPad(rs, padSize, pad)
           end == Min(start + rs - padSize - recordPad, Len(buffer))
           block == encryptRecord(key, i, SubSeq(buffer, start + 1, end),
                                  recordPad, padSize)
       IN  encryptLoop(buffer, key, rs, padSize, i + 1,
                       start + rs - padSize - recordPad, pad - recordPad,
                       [recs |-> Append(acc.recs, block),
                        pads |-> Append(acc.pads, recordPad),
                        ctrs |-> Append(acc.ctrs, i)])

(* random is the value crypto.randomBytes returns when no salt is given *)
encrypt(buffer, params, random) ==
  LET parsed == parseParams(params)
  IN  IF parsed.err # "none" THEN parsed @@ [reachedKey |-> FALSE, reachedLoop |-> FALSE]
      ELSE
      LET header0 == IF params.salt # Undefined THEN parsed
                     ELSE [parsed EXCEPT !.type = "aes128gcm", !.salt = random]
          encoded == IF params.salt # Undefined THEN Ok([hdr |-> <<>>])
                     ELSE encodeHeader(header0)
          rs == determineRecordSize(params.rs, header0.type)
      IN  IF encoded.err # "none"
            THEN encoded @@ [reachedKey |-> FALSE, reachedLoop |-> FALSE]
          ELSE IF rs.err # "none" THEN rs @@ [reachedKey |-> FALSE, reachedLoop |-> FALSE]
          ELSE
          LET header == [header0 EXCEPT !.rs = rs.rs]
              key == deriveKeyAndNonce(header, MODE_ENCRYPT)
              padSize == PAD_SIZE(header.type)
              pad == IF isNaN(params.pad) THEN 0 ELSE params.pad
          IN  IF key.err # "none"
                THEN key @@ [reachedKey |-> TRUE, reachedLoop |-> FALSE, header |-> header]
              ELSE
              LET loop == encryptLoop(buffer, key, header.rs, padSize, 0, 0, pad,
                                      [recs |-> <<>>, pads |-> <<>>, ctrs |-> <<>>])
                  seen == [reachedKey |-> TRUE, reachedLoop |-> TRUE, header |-> header,
                           ikm |-> key.ikm, pads |-> loop.pads, ctrs |-> loop.ctrs,
                           nonceBase |-> key.nonce]
              IN  IF loop.pad # 0 THEN Fail("PadBudgetExhausted") @@ seen
                  ELSE Ok([out |-> [hdr |-> encoded.hdr, recs |-> loop.recs]]) @@ seen

(* ------------------------------ saveKey -------------------------------- *)
saveKey(id, key, dhLabel) ==
  [savedKeys |-> [savedKeys EXCEPT ![id] = key],
   keyLabels |-> IF dhLabel # Undefined
                   THEN [keyLabels EXCEPT ![id] = <<dhLabel, "NUL">>]
                 ELSE keyLabels]

(* ------------------------------- inputs -------------------------------- *)
Plaintexts == {[k \in 1..n |-> k] : n \in 0..MaxLen}
RsSet == {NaN} \cup (1..MaxRs) \cup {BigRs}
PadSet == (0..MaxPad) \cup {BigPad}
Randoms == {"r1", "r2"}

Params ==
  [salt : {Undefined, "S16"}, rs : RsSet, key : {Undefined, "K16", "K8"},
   keyid : KeyIds, dh : {Undefined, "PUBB"}, authSecret : {Undefined, "A16"},
   pad : PadSet, padSize : {1, 2}]

NonceBases ==
  { <<1, 2, 3, 4, 5, 6, 0, 0, 0, 0, 0, 0>>,
    <<9, 8, 7, 6, 5, 4, 255, 255, 255, 255, 255, 254>>,
    <<170, 187, 204, 221, 238, 255, 18, 52, 86, 120, 154, 188>> }
Limbs == {0, 1, 2, 8388608, 1193046, 16777215}
Counters == Limbs \X Limbs

(* the ciphertext without its final record *)
DropLastRecord(buf) == [buf EXCEPT !.recs = SubSeq(buf.recs, 1, Len(buf.recs) - 1)]

(* crypto.randomBytes is called only when no salt is given *)
RandomDraws(params) == IF params.salt # Undefined THEN {Undefined} ELSE Randoms

(* ------------------------------- actions ------------------------------- *)
(* call is the invocation of the library in progress: its arguments and    *)
(* what it returned or threw; "idle" once the caller has taken the result. *)
Idle == [op |-> "idle"]

Init ==
  /\ savedKeys = [id \in Ids |-> Undefined]
  /\ keyLabels = [id \in Ids |-> Undefined]
  /\ call = Idle

SaveKey ==
  /\ call = Idle
  /\ \E id \in Ids, key \in KeyMaterials, dhLabel \in DhLabels :
       LET after == saveKey(id, key, dhLabel)
       IN  /\ savedKeys' = after.savedKeys
           /\ keyLabels' = after.keyLabels
           /\ call' = [op |-> "saveKey", id |-> id, key |-> key, dhLabel |-> dhLabel]

Encrypt ==
  /\ call = Idle
  /\ \E buffer \in Plaintexts, params \in Params :
       \E random \in RandomDraws(params) :
         call' = [op |-> "encrypt", buffer |-> buffer, params |-> params,
                  res |-> encrypt(buffer, params, random)]
  /\ UNCHANGED <<savedKeys, keyLabels>>

(* the receiver decrypts what encrypt returned, with the sender's parameters *)
(* less pad, and its own rs                                                   *)
Decrypt ==
  /\ call.op = "encrypt"
  /\ call.res.err = "none"
  /\ \E rs \in RsSet :
       LET params == [call.params EXCEPT !.pad = NaN, !.rs = rs]
       IN  call' = [op |-> "decrypt", buffer |-> call.res.out, params |-> params,
                    truncated |-> FALSE, sent |-> call,
                    res |-> decrypt(call.res.out, params)]
  /\ UNCHANGED <<savedKeys, keyLabels>>

(* the receiver gets the ciphertext with its final record removed *)
DecryptTruncated ==
  /\ call.op = "encrypt"
  /\ call.res.err = "none"
  /\ LET params == [call.params EXCEPT !.pad = NaN]
         buffer == DropLastRecord(call.res.out)
     IN  call' = [op |-> "decrypt", buffer |-> buffer, params |-> params,
                  truncated |-> TRUE, sent |-> call,
                  res |-> decrypt(buffer, params)]
  /\ UNCHANGED <<savedKeys, keyLabels>>

GenerateNonce ==
  /\ call = Idle
  /\ \E base \in NonceBases, counter \in Counters :
       call' = [op |-> "generateNonce", base |-> base, counter |-> counter,
                nonce |-> generateNonce(base, counter), baseAfter |-> base]
  /\ UNCHANGED <<savedKeys, keyLabels>>

(* the caller takes the result *)
Return ==
  /\ call # Idle
  /\ call' = Idle
  /\ UNCHANGED <<savedKeys, keyLabels>>

Next == SaveKey \/ Encrypt \/ Decrypt \/ DecryptTruncated \/ GenerateNonce \/ Return

Spec == Init /\ [][Next]_vars

(* ------------------------- reading a call record ----------------------- *)
IsEncrypt == call.op = "encrypt"
IsDecrypt == call.op = "decrypt"
Succeeded == call.res.err = "none"
HasOutput == "out" \in DOMAIN call.res
Ikm == IF "ikm" \in DOMAIN call.res THEN call.res.ikm ELSE Undefined

(* the variant a call selects, and the width of its padding-length field *)
VariantOf(params) ==
  IF params.salt = Undefined THEN "aes128gcm"
  ELSE IF params.padSize = 1 THEN "aesgcm128" ELSE "aesgcm"
PadSizeOf(params) == PAD_SIZE(VariantOf(params))

RecPad(rec, padSize) == ReadPad(rec.plain, padSize)
RecData(rec, padSize) ==
  SubSeq(rec.plain, padSize + RecPad(rec, padSize) + 1, Len(rec.plain))

(* ------------------------------- C1 ------------------------------------ *)
(* C1: decrypting what encrypt returned, with the same parameters less pad, *)
(* returns exactly the plaintext, for all three variants.                   *)
C1_RoundTrip ==
  (IsDecrypt /\ ~call.truncated /\ call.params.rs = call.sent.params.rs)
    => (Succeeded /\ call.res.out = call.sent.buffer)

(* ------------------------------- C2 ------------------------------------ *)
(* C2: decrypt of a ciphertext whose final record was removed fails with an *)
(* error and never returns a plaintext, whatever the number of records.     *)
C2_TruncationEvidence ==
  (IsDecrypt /\ call.truncated) => (~Succeeded /\ ~HasOutput)

(* ------------------------------- C3 ------------------------------------ *)
(* C3: every aes128gcm record encrypt writes is exactly rs octets on the    *)
(* wire, tag included, except the last, which is at most rs and more than   *)
(* tagLength + padSize octets.                                              *)
C3_Aes128gcmRecordLength ==
  (IsEncrypt /\ Succeeded /\ call.params.salt = Undefined)
    => LET recs == call.res.out.recs
           rs == call.res.header.rs
           n == Len(recs)
       IN  /\ n >= 1
           /\ \A j \in 1..(n - 1) : RecLen(recs[j]) = rs
           /\ RecLen(recs[n]) <= rs
           /\ RecLen(recs[n]) > TAG_LENGTH + PAD_SIZE("aes128gcm")

(* ------------------------------- C4 ------------------------------------ *)
(* C4: in aes128gcm output the high bit of the first padding octet is set   *)
(* in the last record and that octet is 0 in every earlier record.          *)
C4_DelimiterBit ==
  (IsEncrypt /\ Succeeded /\ call.params.salt = Undefined)
    => LET recs == call.res.out.recs
           n == Len(recs)
       IN  /\ n >= 1
           /\ recs[n].plain[1] >= 128
           /\ \A j \in 1..(n - 1) : recs[j].plain[1] = 0

(* ------------------------------- C5 ------------------------------------ *)
(* C5: legacy output (salt supplied) is one or more records; every record   *)
(* but the last is exactly rs + 16 octets; the last is always present,      *)
(* shorter than rs + 16 and longer than 16 octets; the records' data, in    *)
(* order, is the plaintext, so a plaintext ending on a record's data        *)
(* boundary is followed by a record with empty data.                        *)
C5_LegacyFraming ==
  (IsEncrypt /\ Succeeded /\ call.params.salt # Undefined)
    => LET recs == call.res.out.recs
           rs == call.res.header.rs
           padSize == PadSizeOf(call.params)
           n == Len(recs)
           data == [j \in 1..n |-> RecData(recs[j], padSize)]
       IN  /\ n >= 1
           /\ call.res.out.hdr = <<>>
           /\ rs = (IF call.params.rs = NaN THEN DefaultRs ELSE call.params.rs)
           /\ \A j \in 1..(n - 1) : RecLen(recs[j]) = rs + TAG_LENGTH
           /\ RecLen(recs[n]) < rs + TAG_LENGTH
           /\ RecLen(recs[n]) > TAG_LENGTH
           /\ ConcatAll(data) = call.buffer
           /\ (SumSeq([j \in 1..(n - 1) |-> Len(data[j])]) = Len(call.buffer))
                => data[n] = <<>>

(* a plaintext that ends on a data boundary: full records, then one with no data *)
C5_Witness ==
  /\ IsEncrypt /\ Succeeded /\ call.params.salt # Undefined
  /\ Len(call.buffer) > 0
  /\ Len(call.res.out.recs) >= 3
  /\ RecData(call.res.out.recs[Len(call.res.out.recs)], PadSizeOf(call.params)) = <<>>

(* ------------------------------- C6 ------------------------------------ *)
RsChecked == IsEncrypt \/ (IsDecrypt /\ call.params.salt # Undefined)

C7_LatestSaveOnly ==
  (call.op = "saveKey")
    => /\ savedKeys[call.id] = call.key
       /\ (keyLabels[call.id] # Undefined) <=> (call.dhLabel # Undefined)

(* ------------------------------- C8 ------------------------------------ *)
(* C8: the input keying material is the explicit key when one is given      *)
(* (which must be 16 octets), else the ECDH secret of keystore[keyid] with  *)
(* dh (keyid must be stored, with a label), else keystore[keyid]; in every  *)
(* other case the call fails before any record is processed.                *)
C8_KeyPrecedence ==
  ((IsEncrypt \/ IsDecrypt) /\ call.res.reachedKey)
    => LET p == call.params
           stored == Lookup(savedKeys, p.keyid)
           label == Lookup(keyLabels, p.keyid)
           failsEarly == /\ ~Succeeded
                         /\ ~HasOutput
                         /\ Ikm = Undefined
                         /\ IF IsEncrypt THEN ~call.res.reachedLoop
                            ELSE call.res.ctrs = <<>>
       IN  IF p.key # Undefined
             THEN IF ByteLen(base64_decode(p.key)) = KEY_LENGTH
                    THEN Ikm = base64_decode(p.key)
                    ELSE failsEarly /\ call.res.err = "BadKeyLength"
           ELSE IF p.dh # Undefined
             THEN IF stored = Undefined THEN failsEarly /\ call.res.err = "UnknownKeyId"
                  ELSE IF label = Undefined
                    THEN failsEarly /\ call.res.err = "MissingDhLabel"
                  ELSE IF stored = EcdhKey
                    THEN computeSecret(stored, base64_decode(p.dh)) = Ikm
                    ELSE failsEarly /\ call.res.err = "TypeError"
           ELSE IF p.keyid # Undefined /\ stored # Undefined THEN Ikm = stored
           ELSE failsEarly /\ call.res.err = "MissingKeyMaterial"

(* key, dh and keyid all given, the keyid stored with a label: the key wins *)
C8_Witness ==
  /\ IsEncrypt /\ Succeeded
  /\ call.params.key = "K16" /\ call.params.dh # Undefined /\ call.params.keyid = "a"
  /\ savedKeys["a"] = EcdhKey /\ keyLabels["a"] # Undefined
  /\ Ikm = base64_decode("K16")

(* ------------------------------- C9 ------------------------------------ *)
(* C9: record i carries min(2^(8*padSize) - 1, rs - padSize - 1, remaining  *)
(* budget) padding octets and the data cursor advances by at least 1, so    *)
(* there are at most len + 1 records; a returned ciphertext carries exactly *)
(* the requested pad, and a pad that cannot be placed makes encrypt fail    *)
(* with PadBudgetExhausted and return nothing.                              *)
C9_PadDistribution ==
  (IsEncrypt /\ call.res.reachedLoop)
    => LET pads == call.res.pads
           rs == call.res.header.rs
           padSize == PadSizeOf(call.params)
           wanted == call.params.pad
           n == Len(pads)
           before(i) == SumSeq(SubSeq(pads, 1, i - 1))
           cursor(i) == (i - 1) * (rs - padSize) - before(i)
       IN  /\ \A i \in 1..n :
                /\ pads[i] = Min((2 ^ (8 * padSize)) - 1,
                                 Min(rs - padSize - 1, wanted - before(i)))
                /\ rs - padSize - pads[i] >= 1
                /\ cursor(i) <= Len(call.buffer)
           /\ n >= 1
           /\ n <= Len(call.buffer) + 1
           /\ cursor(n + 1) > Len(call.buffer)
           /\ Succeeded <=> (SumSeq(pads) = wanted)
           /\ ~Succeeded => (call.res.err = "PadBudgetExhausted" /\ ~HasOutput)
           /\ Succeeded =>
                /\ Len(call.res.out.recs) = n
                /\ \A i \in 1..n :
                     LET rec == call.res.out.recs[i]
                     IN  /\ RecPad(rec, padSize) = pads[i]
                         /\ SubSeq(rec.plain, padSize + 1, padSize + pads[i])
                              = Zeros(pads[i])
                         /\ RecData(rec, padSize)
                              = SubSeq(call.buffer, cursor(i) + 1,
                                       Min(cursor(i + 1), Len(call.buffer)))

(* the field width caps the first record's padding; the rest goes to the next *)
C9_Witness ==
  /\ IsEncrypt /\ Succeeded
  /\ call.params.pad = BigPad /\ PadSizeOf(call.params) = 1
  /\ Len(call.res.pads) >= 2
  /\ call.res.pads[1] = 255
  /\ call.res.pads[2] = BigPad - 255

(* ------------------------------- C10 ----------------------------------- *)
(* the 48-bit counter, most significant octet first *)
CounterOctet(counter, k) ==
  IF k = 1 THEN counter[1] \div 65536
  ELSE IF k = 2 THEN (counter[1] \div 256) % 256
  ELSE IF k = 3 THEN counter[1] % 256
  ELSE IF k = 4 THEN counter[2] \div 65536
  ELSE IF k = 5 THEN (counter[2] \div 256) % 256
  ELSE counter[2] % 256

NonceIs(nonce, base, counter) ==
  /\ Len(nonce) = NONCE_LENGTH
  /\ \A k \in 1..6 : nonce[k] = base[k]
  /\ \A k \in 1..6 : nonce[6 + k] = BitXor(base[6 + k], CounterOctet(counter, k), 8)

(* C10: generateNonce returns the base with its first 6 octets unchanged    *)
(* and its last 6 XORed, big-endian, with the counter, and leaves the base  *)
(* as it was; encrypt and decrypt number their records 0, 1, 2, ... so no   *)
(* two records of a message share a counter or a nonce.                     *)
C10_Nonce ==
  /\ (call.op = "generateNonce")
       => /\ NonceIs(call.nonce, call.base, call.counter)
          /\ call.baseAfter = call.base
  /\ (IsEncrypt /\ call.res.reachedLoop)
       => /\ call.res.ctrs = [k \in 1..Len(call.res.ctrs) |-> k - 1]
          /\ Succeeded =>
               LET recs == call.res.out.recs
               IN  /\ Len(call.res.ctrs) = Len(recs)
                   /\ \A j \in 1..Len(recs) :
                        NonceIs(recs[j].nonce, call.res.nonceBase, Num(j - 1))
                   /\ \A i, j \in 1..Len(recs) :
                        (i # j) => recs[i].nonce # recs[j].nonce
  /\ IsDecrypt => call.res.ctrs = [k \in 1..Len(call.res.ctrs) |-> k - 1]

(* a counter with bits set in both 24-bit halves *)
C10_Witness ==
  /\ call.op = "generateNonce"
  /\ call.counter = <<16777215, 8388608>>
  /\ call.base[7] = 18
  /\ call.nonce[7] = 237
====
